---- MODULE Spec2Model ----
(***************************************************************************)
(* Model of device.cpp: Stream, Device, Mixer, Reactor and the             *)
(* calculated/recycle flag.  Devices hold sequences of stream references;  *)
(* updateOutputs reads the input streams and writes the output streams in  *)
(* place.  Every public call is one atomic step (the program is            *)
(* single-threaded); `last` records the call that was made and what it     *)
(* threw.                                                                  *)
(***************************************************************************)
EXTENDS Integers, Sequences, FiniteSets, TLC

(* ---------------- bounds of the model ---------------- *)
MaxMixerInputs == 2      \* Mixer(N) is constructed with N in 1..MaxMixerInputs
MaxFlow == 2             \* mass flows are kept in 0..MaxFlow
NumStreams == 2          \* streams s1..sNumStreams exist beside a single device
ChainStreams == 2        \* streams s1..sChainStreams exist beside the chained pair

(* ---------------- program constants ---------------- *)
MIXER_OUTPUTS == 1
CHAIN_MIXER_INPUTS == 2  \* Mixer mixer(2) of the chain scenarios

FlowValues == 0..MaxFlow

(* ---------------- constructors ---------------- *)
Mixer(inputs_count) ==
    [type |-> "Mixer", _inputs_count |-> inputs_count,
     inputAmount |-> inputs_count, outputAmount |-> MIXER_OUTPUTS]

Reactor(isDoubleReactor) ==
    [type |-> "Reactor", _inputs_count |-> 0,
     inputAmount |-> 1, outputAmount |-> IF isDoubleReactor THEN 2 ELSE 1]

VARIABLES
    kind,            \* device -> what its constructor fixed
    inputs,          \* device -> sequence of attached input streams
    outputs,         \* device -> sequence of attached output streams
    calculated,      \* device -> the calculated flag
    mass_flow,       \* stream -> its mass flow
    last,            \* the call made last and what it threw
    everSucceeded,   \* history: an updateOutputs call on the device has returned normally
    forcedTrue       \* history: setCalculated(true) has been called on the device from outside

vars == <<kind, inputs, outputs, calculated, mass_flow, last, everSucceeded, forcedTrue>>

Devs == DOMAIN kind

Streams == DOMAIN mass_flow       \* Stream(k) has the name "s<k>"

getDeviceType(d) == kind[d].type

(* ---------------- what a call threw ---------------- *)
NoThrow == [thrown |-> "none", what |-> "", deviceType |-> "", streamName |-> 0]

ThrowString(msg) == [thrown |-> "string", what |-> msg, deviceType |-> "", streamName |-> 0]

RecycleException(deviceType, streamName) ==
    [thrown |-> "RecycleException", what |-> "RECYCLE DETECTED",
     deviceType |-> deviceType, streamName |-> streamName]

Call(op, d, res) == [op |-> op, dev |-> d, res |-> res]

(* ---------------- helpers ---------------- *)
RECURSIVE SumFlows(_, _)
SumFlows(seq, mf) ==
    IF seq = << >> THEN 0 ELSE mf[Head(seq)] + SumFlows(Tail(seq), mf)

Range(seq) == {seq[i] : i \in 1..Len(seq)}

Divides(n, x) == n > 0 /\ x % n = 0

(* ---------------- construction ---------------- *)
InitState(k, n) ==
    /\ kind = k
    /\ inputs = [d \in DOMAIN k |-> << >>]
    /\ outputs = [d \in DOMAIN k |-> << >>]
    /\ calculated = [d \in DOMAIN k |-> FALSE]
    /\ mass_flow = [s \in 1..n |-> 0]
    /\ last = Call("none", "-", NoThrow)
    /\ everSucceeded = [d \in DOMAIN k |-> FALSE]
    /\ forcedTrue = [d \in DOMAIN k |-> FALSE]

\* one device and NumStreams streams
Init ==
    \/ \E n \in 1..MaxMixerInputs : InitState("m" :> Mixer(n), NumStreams)
    \/ \E b \in BOOLEAN : InitState("r1" :> Reactor(b), NumStreams)

\* Reactor r1 and Mixer m side by side, r1 already wired s1 -> r1 -> s2
\* (r1.addInput(s1); r1.addOutput(s2)); m is wired by the steps that follow
InitChain ==
    /\ kind = ("r1" :> Reactor(FALSE)) @@ ("m" :> Mixer(CHAIN_MIXER_INPUTS))
    /\ inputs = ("r1" :> <<1>>) @@ ("m" :> << >>)
    /\ outputs = ("r1" :> <<2>>) @@ ("m" :> << >>)
    /\ calculated = [d \in {"r1", "m"} |-> FALSE]
    /\ mass_flow = [s \in 1..ChainStreams |-> 0]
    /\ last = Call("addOutput", "r1", NoThrow)
    /\ everSucceeded = [d \in {"r1", "m"} |-> FALSE]
    /\ forcedTrue = [d \in {"r1", "m"} |-> FALSE]

(* ---------------- Stream::setMassFlow ---------------- *)
SetMassFlow(s, v) ==
    /\ mass_flow' = [mass_flow EXCEPT ![s] = v]
    /\ last' = Call("setMassFlow", "-", NoThrow)
    /\ UNCHANGED <<kind, inputs, outputs, calculated, everSucceeded, forcedTrue>>

(* ---------------- CalculatedDevice::setCalculated ---------------- *)
SetCalculated(d, calc) ==
    /\ calculated' = [calculated EXCEPT ![d] = calc]
    /\ last' = Call("setCalculated", "-", NoThrow)
    /\ forcedTrue' = [forcedTrue EXCEPT ![d] = @ \/ calc]
    /\ UNCHANGED <<kind, inputs, outputs, mass_flow, everSucceeded>>

(* ---------------- addInput / addOutput ---------------- *)
\* variant: Mixer::addInput appends without looking at _inputs_count
AddInputThrows_mixerUnchecked(d) ==
    IF kind[d].type = "Mixer"
    THEN NoThrow
    ELSE IF kind[d].inputAmount > 0 /\ Len(inputs[d]) >= kind[d].inputAmount
         THEN ThrowString("INPUT STREAM LIMIT!") ELSE NoThrow

\* variant: a calculated device refuses new inputs
AddInputThrows_lockedWhenCalculated(d) ==
    IF kind[d].type = "Mixer"
    THEN IF calculated[d] \/ Len(inputs[d]) >= kind[d]._inputs_count
         THEN ThrowString("Too much inputs") ELSE NoThrow
    ELSE IF calculated[d] \/ (kind[d].inputAmount > 0 /\ Len(inputs[d]) >= kind[d].inputAmount)
         THEN ThrowString("INPUT STREAM LIMIT!") ELSE NoThrow

AddInputThrows(d) ==
    IF kind[d].type = "Mixer"
    THEN IF Len(inputs[d]) >= kind[d]._inputs_count
         THEN ThrowString("Too much inputs") ELSE NoThrow
    ELSE IF kind[d].inputAmount > 0 /\ Len(inputs[d]) >= kind[d].inputAmount
         THEN ThrowString("INPUT STREAM LIMIT!") ELSE NoThrow

\* variant: Device::addOutput compares with > instead of >=
AddOutputThrows_offByOne(d) ==
    IF kind[d].type = "Mixer"
    THEN IF Len(outputs[d]) >= MIXER_OUTPUTS
         THEN ThrowString("Too much outputs") ELSE NoThrow
    ELSE IF kind[d].outputAmount > 0 /\ Len(outputs[d]) > kind[d].outputAmount
         THEN ThrowString("OUTPUT STREAM LIMIT!") ELSE NoThrow

AddOutputThrows(d) ==
    IF kind[d].type = "Mixer"
    THEN IF Len(outputs[d]) >= MIXER_OUTPUTS
         THEN ThrowString("Too much outputs") ELSE NoThrow
    ELSE IF kind[d].outputAmount > 0 /\ Len(outputs[d]) >= kind[d].outputAmount
         THEN ThrowString("OUTPUT STREAM LIMIT!") ELSE NoThrow

AddInput(d, s) ==
    /\ last' = Call("addInput", d, AddInputThrows(d))
    /\ inputs' = IF AddInputThrows(d) = NoThrow
                 THEN [inputs EXCEPT ![d] = Append(@, s)] ELSE inputs
    /\ UNCHANGED <<kind, outputs, calculated, mass_flow, everSucceeded, forcedTrue>>

\* variant: push_back runs before the limit is tested
AddOutput_pushFirst(d, s) ==
    /\ last' = Call("addOutput", d, AddOutputThrows(d))
    /\ outputs' = [outputs EXCEPT ![d] = Append(@, s)]
    /\ UNCHANGED <<kind, inputs, calculated, mass_flow, everSucceeded, forcedTrue>>

AddOutput(d, s) ==
    /\ last' = Call("addOutput", d, AddOutputThrows(d))
    /\ outputs' = IF AddOutputThrows(d) = NoThrow
                  THEN [outputs EXCEPT ![d] = Append(@, s)] ELSE outputs
    /\ UNCHANGED <<kind, inputs, calculated, mass_flow, everSucceeded, forcedTrue>>

(* ---------------- Device::checkForRecycle ---------------- *)
\* variant: the check is left out of updateOutputs
checkForRecycle_noCheck(d) == NoThrow

\* variant: the check only looks at a fully wired output side
checkForRecycle_whenFull(d) ==
    IF Len(outputs[d]) = kind[d].outputAmount /\ calculated[d]
    THEN RecycleException(getDeviceType(d), outputs[d][1]) ELSE NoThrow

\* variant: the loop throws without asking isCalculated()
checkForRecycle_noFlag(d) ==
    IF outputs[d] # << >>
    THEN RecycleException(getDeviceType(d), outputs[d][1]) ELSE NoThrow

\* variant: the flag is shared by all devices
checkForRecycle_sharedFlag(d) ==
    IF outputs[d] # << >> /\ (\E e \in Devs : calculated[e])
    THEN RecycleException(getDeviceType(d), outputs[d][1]) ELSE NoThrow

\* the loop over outputs throws in its first iteration when calculated
checkForRecycle(d) ==
    IF outputs[d] # << >> /\ calculated[d]
    THEN RecycleException(getDeviceType(d), outputs[d][1]) ELSE NoThrow

(* ---------------- updateOutputs ---------------- *)
\* variant: the Mixer insists on all of its inputs being attached
MixerThrows_requireAllInputs(d) ==
    IF checkForRecycle(d) # NoThrow THEN checkForRecycle(d)
    ELSE IF outputs[d] = << >> \/ Len(inputs[d]) # kind[d]._inputs_count
         THEN ThrowString("Should set outputs before update")
    ELSE NoThrow

\* variant: Mixer::updateOutputs does not call checkForRecycle
MixerThrows_noRecycle(d) ==
    IF outputs[d] = << >> THEN ThrowString("Should set outputs before update")
    ELSE NoThrow

MixerThrows(d) ==
    IF checkForRecycle(d) # NoThrow THEN checkForRecycle(d)
    ELSE IF outputs[d] = << >> THEN ThrowString("Should set outputs before update")
    ELSE NoThrow

\* variant: the recycle check comes after the other preconditions
ReactorThrows_recycleLast(d) ==
    IF inputs[d] = << >> THEN ThrowString("No input stream")
    ELSE IF Len(outputs[d]) # kind[d].outputAmount THEN ThrowString("Wrong number of outputs")
    ELSE checkForRecycle(d)

\* variant: one attached output is enough ("at least" instead of exact match)
ReactorThrows_atLeastOne(d) ==
    IF checkForRecycle(d) # NoThrow THEN checkForRecycle(d)
    ELSE IF inputs[d] = << >> THEN ThrowString("No input stream")
    ELSE IF outputs[d] = << >> THEN ThrowString("Wrong number of outputs")
    ELSE NoThrow

\* variant: the output count is checked before the missing input
ReactorThrows_countFirst(d) ==
    IF checkForRecycle(d) # NoThrow THEN checkForRecycle(d)
    ELSE IF Len(outputs[d]) # kind[d].outputAmount THEN ThrowString("Wrong number of outputs")
    ELSE IF inputs[d] = << >> THEN ThrowString("No input stream")
    ELSE NoThrow

ReactorThrows(d) ==
    IF checkForRecycle(d) # NoThrow THEN checkForRecycle(d)
    ELSE IF inputs[d] = << >> THEN ThrowString("No input stream")
    ELSE IF Len(outputs[d]) # kind[d].outputAmount THEN ThrowString("Wrong number of outputs")
    ELSE NoThrow

UpdateThrows(d) == IF kind[d].type = "Mixer" THEN MixerThrows(d) ELSE ReactorThrows(d)

\* the value every output stream receives
\* variant: a stream attached to two input slots is added once
MixerOutputMass_oncePerStream(d) ==
    LET RECURSIVE SumSet(_)
        SumSet(S) == IF S = {} THEN 0
                     ELSE LET x == CHOOSE y \in S : TRUE
                          IN  mass_flow[x] + SumSet(S \ {x})
    IN  SumSet(Range(inputs[d])) \div Len(outputs[d])

MixerOutputMass(d) == SumFlows(inputs[d], mass_flow) \div Len(outputs[d])

\* variant: every output receives the whole input
ReactorOutputMass_noSplit(d) == mass_flow[inputs[d][1]]

ReactorOutputMass(d) == mass_flow[inputs[d][1]] \div kind[d].outputAmount

OutputMass(d) == IF kind[d].type = "Mixer" THEN MixerOutputMass(d) ELSE ReactorOutputMass(d)

\* the streams the loop writes: every output of a Mixer, outputs 0..outputAmount-1 of a Reactor
\* variant: the write loop also runs over the input streams
Written_andInputs(d) == Range(outputs[d]) \cup Range(inputs[d])

Written(d) == Range(outputs[d])

\* the division is exact and the result stays inside the modelled range
Representable(d) ==
    /\ IF kind[d].type = "Mixer"
       THEN Divides(Len(outputs[d]), SumFlows(inputs[d], mass_flow))
       ELSE Divides(kind[d].outputAmount, mass_flow[inputs[d][1]])
    /\ OutputMass(d) \in FlowValues

\* variant: setCalculated(true) is reached although the call throws
UpdateOutputs_markAlways(d) ==
    /\ last' = Call("updateOutputs", d, UpdateThrows(d))
    /\ calculated' = [calculated EXCEPT ![d] = TRUE]
    /\ IF UpdateThrows(d) = NoThrow
       THEN /\ Representable(d)
            /\ mass_flow' = [s \in Streams |->
                               IF s \in Written(d) THEN OutputMass(d) ELSE mass_flow[s]]
            /\ everSucceeded' = [everSucceeded EXCEPT ![d] = TRUE]
       ELSE UNCHANGED <<mass_flow, everSucceeded>>
    /\ UNCHANGED <<kind, inputs, outputs, forcedTrue>>

UpdateOutputs(d) ==
    /\ last' = Call("updateOutputs", d, UpdateThrows(d))
    /\ IF UpdateThrows(d) = NoThrow
       THEN /\ Representable(d)
            /\ mass_flow' = [s \in Streams |->
                               IF s \in Written(d) THEN OutputMass(d) ELSE mass_flow[s]]
            /\ calculated' = [calculated EXCEPT ![d] = TRUE]
            /\ everSucceeded' = [everSucceeded EXCEPT ![d] = TRUE]
       ELSE UNCHANGED <<mass_flow, calculated, everSucceeded>>
    /\ UNCHANGED <<kind, inputs, outputs, forcedTrue>>

(* ---------------- specifications ---------------- *)
Next ==
    \/ \E d \in Devs : \E s \in Streams : AddInput(d, s)
    \/ \E d \in Devs : \E s \in Streams : AddOutput(d, s)
    \/ \E d \in Devs : UpdateOutputs(d)
    \/ \E d \in Devs : \E calc \in BOOLEAN : SetCalculated(d, calc)
    \/ \E s \in Streams : \E v \in FlowValues : SetMassFlow(s, v)

Spec == Init /\ [][Next]_vars

\* the interface without setCalculated
NextNoReset ==
    \/ \E d \in Devs : \E s \in Streams : AddInput(d, s)
    \/ \E d \in Devs : \E s \in Streams : AddOutput(d, s)
    \/ \E d \in Devs : UpdateOutputs(d)
    \/ \E s \in Streams : \E v \in FlowValues : SetMassFlow(s, v)

SpecNoReset == Init /\ [][NextNoReset]_vars

SpecChain == InitChain /\ [][NextNoReset]_vars

(***************************************************************************)
(* Properties                                                              *)
(***************************************************************************)
\* the step is a call of updateOutputs on d
UpdateCall(d) == last'.op = "updateOutputs" /\ last'.dev = d

\* the step is a call of updateOutputs on d that returned normally
UpdateOk(d) == UpdateCall(d) /\ last'.res = NoThrow

\* the state is the one right after such a call
JustUpdated(d) == last.op = "updateOutputs" /\ last.dev = d /\ last.res = NoThrow

RecycleDetected(res) == res.thrown = "RecycleException"

\* C1: without setCalculated, once updateOutputs has succeeded on a device
\* every later updateOutputs call on it fails with RecycleDetected, so at
\* most one call succeeds.
C1_OneSuccessThenRecycle ==
    [][\A d \in Devs :
          (UpdateCall(d) /\ everSucceeded[d]) => RecycleDetected(last'.res)]_vars

C1_Witness ==
    \E d \in Devs : /\ everSucceeded[d]
                    /\ last.op = "updateOutputs" /\ last.dev = d
                    /\ RecycleDetected(last.res)

\* C2 as stated: whenever calculated is true, updateOutputs fails with
\* RecycleDetected.
C2_CalculatedAlwaysRecycle ==
    [][\A d \in Devs :
          (UpdateCall(d) /\ calculated[d]) => RecycleDetected(last'.res)]_vars

\* C2 amended: whenever calculated is true and at least one output stream
\* is attached, updateOutputs fails with RecycleDetected.
C2_CalculatedWithOutputRecycle ==
    [][\A d \in Devs :
          (UpdateCall(d) /\ calculated[d] /\ outputs[d] # << >>)
              => RecycleDetected(last'.res)]_vars

C2_Witness ==
    \E d \in Devs : /\ calculated[d] /\ forcedTrue[d] /\ ~everSucceeded[d]
                    /\ Len(outputs[d]) < kind[d].outputAmount
                    /\ last.op = "updateOutputs" /\ last.dev = d
                    /\ RecycleDetected(last.res)

\* C3 as stated: a device on which no updateOutputs call has succeeded
\* never raises RecycleDetected.
C3_NeverSucceededNoRecycle ==
    [][\A d \in Devs :
          (UpdateCall(d) /\ ~everSucceeded[d]) => ~RecycleDetected(last'.res)]_vars

\* C3 amended: a device on which no updateOutputs call has succeeded and on
\* which setCalculated(true) has never been called never raises
\* RecycleDetected.
C3_UntouchedNoRecycle ==
    [][\A d \in Devs :
          (UpdateCall(d) /\ ~everSucceeded[d] /\ ~forcedTrue[d])
              => ~RecycleDetected(last'.res)]_vars

C3_Witness ==
    \E d \in Devs : /\ ~everSucceeded[d] /\ ~forcedTrue[d]
                    /\ outputs[d] # << >>
                    /\ last.op = "updateOutputs" /\ last.dev = d
                    /\ last.res.thrown = "string"

FlagKeepingOps == {"addInput", "addOutput", "updateOutputs", "setMassFlow"}

Capacity(d, side) ==
    IF side = "in" THEN kind[d].inputAmount ELSE kind[d].outputAmount

\* C5: a Mixer(N) never holds more than N inputs or more than 1 output, a
\* Reactor never more than 1 input or more than outputAmount outputs.
C5_WithinCapacity ==
    \A d \in Devs :
        IF kind[d].type = "Mixer"
        THEN Len(inputs[d]) <= kind[d]._inputs_count /\ Len(outputs[d]) <= 1
        ELSE /\ Len(inputs[d]) <= 1
             /\ kind[d].outputAmount \in {1, 2}
             /\ Len(outputs[d]) <= kind[d].outputAmount

C5_Witness ==
    \E d \in Devs : /\ kind[d].type = "Mixer"
                    /\ Len(inputs[d]) = kind[d]._inputs_count
                    /\ last = Call("addInput", d, ThrowString("Too much inputs"))

\* C6: an add call on a side that holds fewer streams than its capacity N
\* succeeds and attaches the stream at the end; an add call on a side that
\* already holds N streams (the (N+1)-th call and every later one) fails and
\* attaches nothing, with "Too much inputs"/"Too much outputs" for a Mixer
\* and "INPUT STREAM LIMIT!"/"OUTPUT STREAM LIMIT!" for a Reactor.
C6_CapacityEnforced ==
    [][\A d \in Devs :
         /\ (last'.op = "addInput" /\ last'.dev = d) =>
               IF Len(inputs[d]) < Capacity(d, "in")
               THEN /\ last'.res = NoThrow
                    /\ Len(inputs'[d]) = Len(inputs[d]) + 1
                    /\ SubSeq(inputs'[d], 1, Len(inputs[d])) = inputs[d]
               ELSE /\ inputs'[d] = inputs[d]
                    /\ last'.res = ThrowString(IF kind[d].type = "Mixer"
                                                THEN "Too much inputs"
                                                ELSE "INPUT STREAM LIMIT!")
         /\ (last'.op = "addOutput" /\ last'.dev = d) =>
               IF Len(outputs[d]) < Capacity(d, "out")
               THEN /\ last'.res = NoThrow
                    /\ Len(outputs'[d]) = Len(outputs[d]) + 1
                    /\ SubSeq(outputs'[d], 1, Len(outputs[d])) = outputs[d]
               ELSE /\ outputs'[d] = outputs[d]
                    /\ last'.res = ThrowString(IF kind[d].type = "Mixer"
                                                THEN "Too much outputs"
                                                ELSE "OUTPUT STREAM LIMIT!")]_vars

C6_Witness ==
    \E d \in Devs : /\ kind[d].type = "Reactor" /\ kind[d].outputAmount = 2
                    /\ Len(outputs[d]) = 2
                    /\ last = Call("addOutput", d, ThrowString("OUTPUT STREAM LIMIT!"))

\* C7 as stated: right after a successful updateOutputs of a Mixer with one
\* output, the output stream's mass flow equals the sum of the mass flows
\* its input streams have in that state, once per attachment.
C7_MixerSumAfter ==
    \A d \in Devs :
        (JustUpdated(d) /\ kind[d].type = "Mixer" /\ Len(outputs[d]) = 1)
            => mass_flow[outputs[d][1]] = SumFlows(inputs[d], mass_flow)

\* C7 amended: a successful updateOutputs of a Mixer with one output sets
\* the output stream's mass flow to the sum of the mass flows its input
\* streams had when the call started, once per attachment.
C7_MixerSumOfRead ==
    [][\A d \in Devs :
          (UpdateOk(d) /\ kind[d].type = "Mixer" /\ Len(outputs[d]) = 1)
              => mass_flow'[outputs[d][1]] = SumFlows(inputs[d], mass_flow)]_vars

C7_Witness ==
    \E d \in Devs : /\ JustUpdated(d) /\ kind[d].type = "Mixer"
                    /\ Len(inputs[d]) = 2 /\ inputs[d][1] = inputs[d][2]
                    /\ mass_flow[outputs[d][1]] = 2
                    /\ mass_flow[inputs[d][1]] = 1

\* C8 as stated: right after a successful updateOutputs of a Reactor, the
\* mass flows of its outputs add up to the mass flow inputs[0] has in that
\* state, and each output times outputAmount equals it.
C8_ReactorSplitAfter ==
    \A d \in Devs :
        (JustUpdated(d) /\ kind[d].type = "Reactor")
            => /\ SumFlows(outputs[d], mass_flow) = mass_flow[inputs[d][1]]
               /\ \A i \in 1..Len(outputs[d]) :
                      mass_flow[outputs[d][i]] * kind[d].outputAmount
                          = mass_flow[inputs[d][1]]

\* C8 amended: a successful updateOutputs of a Reactor sets every output to
\* the mass flow inputs[0] had when the call started divided by
\* outputAmount, so the outputs add up to that value.
C8_ReactorSplitOfRead ==
    [][\A d \in Devs :
          (UpdateOk(d) /\ kind[d].type = "Reactor")
              => /\ SumFlows(outputs[d], mass_flow') = mass_flow[inputs[d][1]]
                 /\ \A i \in 1..Len(outputs[d]) :
                        mass_flow'[outputs[d][i]] * kind[d].outputAmount
                            = mass_flow[inputs[d][1]]]_vars

C8_Witness ==
    \E d \in Devs : /\ JustUpdated(d) /\ kind[d].type = "Reactor"
                    /\ kind[d].outputAmount = 2
                    /\ inputs[d][1] \in Range(outputs[d])
                    /\ outputs[d][1] # outputs[d][2]
                    /\ mass_flow[outputs[d][1]] = 1 /\ mass_flow[outputs[d][2]] = 1

\* C9: on a device whose calculated flag is false, updateOutputs of a
\* Reactor without input throws "No input stream" whatever its outputs, and
\* updateOutputs of a Mixer without output throws "Should set outputs
\* before update" whatever its inputs.
C9_PreconditionOrder ==
    [][\A d \in Devs :
          (UpdateCall(d) /\ ~calculated[d]) =>
             /\ (kind[d].type = "Reactor" /\ inputs[d] = << >>)
                    => last'.res = ThrowString("No input stream")
             /\ (kind[d].type = "Mixer" /\ outputs[d] = << >>)
                    => last'.res = ThrowString("Should set outputs before update")]_vars

C9_Witness ==
    \E d \in Devs : /\ kind[d].type = "Reactor" /\ kind[d].outputAmount = 2
                    /\ ~calculated[d] /\ inputs[d] = << >>
                    /\ Len(outputs[d]) = 1
                    /\ last = Call("updateOutputs", d, ThrowString("No input stream"))

\* C10: with an output stream of Reactor r1 attached as an input of Mixer m,
\* a successful updateOutputs of r1 leaves m's calculated flag alone, the
\* first updateOutputs of m does not throw RecycleDetected, and when it
\* succeeds after r1's update m's output receives the sum of m's inputs as
\* they are then, the value r1 wrote included.
C10_ChainPropagates ==
    [][(Range(outputs["r1"]) \cap Range(inputs["m"]) # {}) =>
          /\ UpdateOk("r1") => calculated'["m"] = calculated["m"]
          /\ (UpdateCall("m") /\ ~everSucceeded["m"]) => ~RecycleDetected(last'.res)
          /\ (UpdateOk("m") /\ everSucceeded["r1"])
                => mass_flow'[outputs["m"][1]] = SumFlows(inputs["m"], mass_flow)]_vars

C10_Witness ==
    /\ JustUpdated("m") /\ everSucceeded["r1"]
    /\ Len(inputs["m"]) = 2 /\ inputs["m"][1] = outputs["r1"][1]
    /\ outputs["m"][1] \notin Range(inputs["m"])
    /\ mass_flow[outputs["r1"][1]] = 1
    /\ mass_flow[outputs["m"][1]] = 2

\* C11: updateOutputs throws RecycleDetected exactly when calculated is true
\* and at least one output stream is attached when the call starts; it then
\* names the device type and the first output stream, wins over the
\* EmptyOutputs, MissingInput and OutputCountMismatch conditions, and no
\* mass flow is written.
C11_RecycleExactlyWhen ==
    [][\A d \in Devs :
          UpdateCall(d) =>
             IF calculated[d] /\ outputs[d] # << >>
             THEN /\ last'.res = RecycleException(kind[d].type, outputs[d][1])
                  /\ mass_flow' = mass_flow
             ELSE ~RecycleDetected(last'.res)]_vars

C11_Witness ==
    \E d \in Devs : /\ kind[d].type = "Reactor" /\ kind[d].outputAmount = 2
                    /\ calculated[d] /\ inputs[d] = << >> /\ Len(outputs[d]) = 1
                    /\ last.op = "updateOutputs" /\ last.dev = d
                    /\ RecycleDetected(last.res)

\* C12: a call of addInput, addOutput or updateOutputs that throws leaves
\* the input and output sequences, the calculated flags and every mass
\* flow as they were.
C12_FailureChangesNothing ==
    [][(last'.op \in {"addInput", "addOutput", "updateOutputs"} /\ last'.res # NoThrow)
          => UNCHANGED <<inputs, outputs, calculated, mass_flow>>]_vars

C12_Witness ==
    \E d \in Devs : /\ kind[d].type = "Reactor" /\ ~calculated[d]
                    /\ inputs[d] # << >> /\ mass_flow[inputs[d][1]] = 2
                    /\ \E s \in Streams : mass_flow[s] = 0
                    /\ last = Call("updateOutputs", d, ThrowString("Wrong number of outputs"))

\* C13: updateOutputs on a Reactor whose calculated flag is false and that
\* has an input succeeds exactly when the attached output count equals
\* outputAmount, otherwise throws "Wrong number of outputs" and leaves the
\* flag false; on such a Mixer it succeeds exactly when an output is
\* attached, otherwise throws "Should set outputs before update" and leaves
\* the flag false.  So the call succeeds once the outputs are complete.
C13_RetryAfterWiring ==
    [][\A d \in Devs :
          (UpdateCall(d) /\ ~calculated[d]) =>
             /\ (kind[d].type = "Reactor" /\ inputs[d] # << >>) =>
                   IF Len(outputs[d]) = kind[d].outputAmount
                   THEN last'.res = NoThrow /\ calculated'[d]
                   ELSE /\ last'.res = ThrowString("Wrong number of outputs")
                        /\ ~calculated'[d]
             /\ kind[d].type = "Mixer" =>
                   IF outputs[d] # << >>
                   THEN last'.res = NoThrow /\ calculated'[d]
                   ELSE /\ last'.res = ThrowString("Should set outputs before update")
                        /\ ~calculated'[d]]_vars

C13_Witness ==
    \E d \in Devs : /\ kind[d].type = "Reactor" /\ kind[d].outputAmount = 2
                    /\ ~calculated[d] /\ inputs[d] # << >> /\ Len(outputs[d]) = 1
                    /\ last = Call("updateOutputs", d, ThrowString("Wrong number of outputs"))

\* C14: a successful updateOutputs on d changes the mass flow of no stream
\* outside d's outputs, no input or output sequence, and the calculated
\* flag of no other device; d's own flag becomes true.
C14_UpdateFrame ==
    [][\A d \in Devs :
          UpdateOk(d) =>
             /\ \A s \in Streams :
                    s \notin Range(outputs[d]) => mass_flow'[s] = mass_flow[s]
             /\ inputs' = inputs /\ outputs' = outputs /\ kind' = kind
             /\ \A e \in Devs \ {d} : calculated'[e] = calculated[e]
             /\ calculated'[d]]_vars

C14_Witness ==
    /\ JustUpdated("r1") /\ ~calculated["m"]
    /\ outputs["r1"][1] \in Range(inputs["m"])
    /\ outputs["m"] # << >> /\ outputs["m"][1] = inputs["r1"][1]
    /\ mass_flow[outputs["r1"][1]] = 2

\* C15: updateOutputs on a Mixer(N) whose calculated flag is false and that
\* has one output succeeds with any number 0..N of attached inputs, sets
\* the output to the sum of the input mass flows it reads (0 without
\* inputs) and sets calculated.
C15_MixerPartialInputs ==
    [][\A d \in Devs :
          (UpdateCall(d) /\ kind[d].type = "Mixer" /\ ~calculated[d] /\ Len(outputs[d]) = 1)
             => /\ last'.res = NoThrow
                /\ mass_flow'[outputs[d][1]] = SumFlows(inputs[d], mass_flow)
                /\ inputs[d] = << >> => mass_flow'[outputs[d][1]] = 0
                /\ calculated'[d]]_vars

C15_Witness ==
    \E d \in Devs : /\ JustUpdated(d) /\ kind[d].type = "Mixer"
                    /\ kind[d]._inputs_count = 2 /\ Len(inputs[d]) = 1
                    /\ inputs[d][1] # outputs[d][1]
                    /\ mass_flow[outputs[d][1]] = 2 /\ calculated[d]

\* C16: without setCalculated, a calculated Mixer has exactly 1 output and a
\* calculated Reactor exactly 1 input and exactly outputAmount outputs.
C16_CalculatedIsWired ==
    \A d \in Devs :
        calculated[d] =>
            IF kind[d].type = "Mixer"
            THEN Len(outputs[d]) = 1
            ELSE Len(inputs[d]) = 1 /\ Len(outputs[d]) = kind[d].outputAmount

C16_Witness ==
    \E d \in Devs : /\ calculated[d] /\ kind[d].type = "Reactor"
                    /\ kind[d].outputAmount = 2 /\ Len(outputs[d]) = 2
                    /\ last.op = "addOutput" /\ last.res # NoThrow

\* C17: addInput/addOutput succeeds exactly when the side holds fewer
\* streams than its capacity, whatever the calculated flag, and, thrown or
\* not, changes no calculated flag and no mass flow.
C17_AddIgnoresCalculated ==
    [][\A d \in Devs :
         /\ (last'.op = "addInput" /\ last'.dev = d) =>
               /\ (last'.res = NoThrow) = (Len(inputs[d]) < Capacity(d, "in"))
               /\ UNCHANGED <<calculated, mass_flow>>
         /\ (last'.op = "addOutput" /\ last'.dev = d) =>
               /\ (last'.res = NoThrow) = (Len(outputs[d]) < Capacity(d, "out"))
               /\ UNCHANGED <<calculated, mass_flow>>]_vars

C17_Witness ==
    \E d \in Devs : /\ kind[d].type = "Mixer" /\ calculated[d] /\ everSucceeded[d]
                    /\ last = Call("addInput", d, NoThrow)
                    /\ mass_flow[outputs[d][1]] # SumFlows(inputs[d], mass_flow)

====
